---- MODULE Spec2Model ----
(***************************************************************************)
(* Model of src/src/db.py: the DataBase connection manager (connect/close  *)
(* under an asyncio lock), Query construction checks, Query.results and    *)
(* the per-connection query latency tracking.                              *)
(***************************************************************************)
EXTENDS Integers, Sequences, FiniteSets, TLC

\* ------------------------------------------------------------------ bounds
NumTasks == 2
MaxAttempts == 2
MaxPending == 1
MaxInterval == 2
MaxSqlLen == 2
MaxMetrics == 2
MaxKeys == 4
MaxRows == 2
MaxClock == 3

None == "None"

\* Optional values: Nil for Python's None, Some(x) for a value x.
Nil == <<>>
Some(x) == <<x>>

\* ===================================================== DataBase (db.py:233)
VARIABLES
    pc,         \* position of every caller task inside connect()/close()
    lock,       \* DataBase._connect_lock: 0 when free, else the holding task
    waiters,    \* FIFO of the tasks suspended in _connect_lock.acquire()
    conn,       \* DataBase._conn: 0 for None, else the id of the held handle
    hstate,     \* state of every handle the engine has handed out
    pending,    \* DataBase._pending_queries
    attempts,   \* number of calls of self._engine.connect() so far
    handles,    \* number of handles the engine has returned so far
    everClose,  \* some close() call has started
    everFail,   \* some underlying connect has failed
    ret         \* per task: how its last connect()/close() call ended

dbVars == <<pc, lock, waiters, conn, hstate, pending, attempts, handles,
            everClose, everFail, ret>>

\* ========================================================== Query (db.py:145)
VARIABLES
    query,      \* the arguments Query.__init__ is called with
    built       \* what the constructor call produced

queryVars == <<query, built>>

\* ================================================== Query.results (db.py:183)
VARIABLES
    metrics,    \* Query.metrics: the list of QueryMetric(name, labels)
    results_in, \* the QueryResults passed to results(): keys, rows, latency
    results_out \* what the results() call produced

resultsVars == <<metrics, results_in, results_out>>

\* ===================================== query latency tracking (db.py:301)
VARIABLES
    clock,      \* the value perf_counter() returns
    info,       \* conn.info of the connection: query_start_time, query_latency
    stmt,       \* the statement last submitted on the connection
    attached    \* QueryResults.latency of the last result set built

latencyVars == <<clock, info, stmt, attached>>

\* ===================================================== DataBase (db.py:233)
Tasks == 1..NumTasks
HandleIds == 1..MaxAttempts
\* classes of the exception self._engine.connect() may raise
ConnectErrors == {"OperationalError", "TimeoutError"}
\* class of the exception detach() or close() of the handle may raise
CloseErrors == {"DBAPIError"}

\* DataBase.connected
connected == conn # 0

\* ret[t] before any call. While a call runs only op and waited are set; on
\* exit the record tells how the call ended and what the manager was then:
\*   outcome    "returned" or "raised"
\*   error, message   the exception class and its message, when raised
\*   cause      the class of the underlying exception, when there was one
\*   waited     the call was suspended in the lock's acquire()
\*   connected  DataBase.connected on exit
\*   pending    _pending_queries on exit (of close() only, else 0)
\*   attempted  the call called self._engine.connect()
\*   touched    the call called detach() or close() on the handle
\*   wasConnected   DataBase.connected when the call made its check
\*   hadPending (of close() only)   _pending_queries was not 0 at that time
NoCall ==
    [op |-> "none", outcome |-> "none", error |-> None, message |-> None,
     cause |-> None, waited |-> FALSE, connected |-> FALSE, pending |-> 0,
     attempted |-> FALSE, touched |-> FALSE, wasConnected |-> FALSE,
     hadPending |-> FALSE]

\* A call past its connected check.
Running(o, w) ==
    [NoCall EXCEPT !.op = o, !.waited = w, !.wasConnected = connected,
                   !.hadPending = (o = "close" /\ pending # 0)]

\* A call that leaves; c and p are _conn and _pending_queries as it leaves.
Exited(r, out, err, msg, cause, c, p, att, tch) ==
    [r EXCEPT !.outcome = out, !.error = err, !.message = msg,
              !.cause = cause, !.connected = (c # 0),
              !.pending = IF r.op = "close" THEN p ELSE 0,
              !.attempted = att, !.touched = tch]

\* connect() and close() that never wait for the lock.
LockFree_NotTaken == TRUE

\* asyncio.Lock.acquire returns at once iff the lock is free and nobody waits
LockFree == lock = 0 /\ waiters = <<>>

\* ---- connect(), lines 268-279 -------------------------------------------
\* The part of connect() that runs once the lock is held, up to the first
\* suspension: the connected check and the start of self._engine.connect().
\* w: the call had to wait for the lock.
ConnectLocked(t, w) ==
    IF connected
    THEN /\ pc' = [pc EXCEPT ![t] = "idle"]
         /\ lock' = 0
         /\ UNCHANGED attempts
         /\ ret' = [ret EXCEPT ![t] =
                Exited(Running("connect", w), "returned", None, None, None,
                       conn, pending, FALSE, FALSE)]
    ELSE /\ attempts < MaxAttempts
         /\ attempts' = attempts + 1
         /\ pc' = [pc EXCEPT ![t] = "connect_await"]
         /\ lock' = t
         /\ ret' = [ret EXCEPT ![t] = Running("connect", w)]

\* A task calls connect(): "async with self._connect_lock".
ConnectCall(t) ==
    /\ UNCHANGED <<queryVars, resultsVars, latencyVars>>
    /\ pc[t] = "idle"
    /\ IF LockFree
       THEN /\ ConnectLocked(t, FALSE)
            /\ UNCHANGED waiters
       ELSE /\ pc' = [pc EXCEPT ![t] = "connect_wait"]
            /\ waiters' = Append(waiters, t)
            /\ ret' = [ret EXCEPT ![t] = [NoCall EXCEPT !.op = "connect"]]
            /\ UNCHANGED <<lock, attempts>>
    /\ UNCHANGED <<conn, hstate, pending, handles, everClose, everFail>>

\* The lock is released and the first waiter, a connect() call, gets it.
ConnectAcquire(t) ==
    /\ UNCHANGED <<queryVars, resultsVars, latencyVars>>
    /\ pc[t] = "connect_wait"
    /\ lock = 0
    /\ waiters # <<>>
    /\ Head(waiters) = t
    /\ waiters' = Tail(waiters)
    /\ ConnectLocked(t, TRUE)
    /\ UNCHANGED <<conn, hstate, pending, handles, everClose, everFail>>

\* "self._conn = await self._engine.connect()" completes with a handle.
ConnectSucceeded(t) ==
    /\ conn' = handles + 1
    /\ handles' = handles + 1
    /\ hstate' = [hstate EXCEPT ![handles + 1] = "open"]
    /\ lock' = 0
    /\ pc' = [pc EXCEPT ![t] = "idle"]
    /\ UNCHANGED <<everFail, pending>>
    /\ ret' = [ret EXCEPT ![t] =
            Exited(ret[t], "returned", None, None, None, conn', pending',
                   TRUE, FALSE)]

\* A connect() whose failure path leaves the lock held.
ConnectFailed_KeepsLock(t, e) ==
    /\ everFail' = TRUE
    /\ pc' = [pc EXCEPT ![t] = "idle"]
    /\ UNCHANGED <<conn, handles, hstate, pending, lock>>
    /\ ret' = [ret EXCEPT ![t] =
            Exited(ret[t], "raised", "DataBaseConnectError", e, e, conn',
                   pending', TRUE, FALSE)]

\* "except Exception as error: raise DataBaseConnectError(
\*  error.__class__.__name__)": the lock is released by "async with".
ConnectFailed(t, e) ==
    /\ everFail' = TRUE
    /\ lock' = 0
    /\ pc' = [pc EXCEPT ![t] = "idle"]
    /\ UNCHANGED <<conn, handles, hstate, pending>>
    /\ ret' = [ret EXCEPT ![t] =
            Exited(ret[t], "raised", "DataBaseConnectError", e, e, conn',
                   pending', TRUE, FALSE)]

\* The underlying connect ends, with a handle or with an exception.
ConnectDone(t) ==
    /\ UNCHANGED <<queryVars, resultsVars, latencyVars>>
    /\ pc[t] = "connect_await"
    /\ \/ ConnectSucceeded(t)
       \/ \E e \in ConnectErrors : ConnectFailed(t, e)
    /\ UNCHANGED <<waiters, attempts, everClose>>

\* ---- close(), lines 281-294 ---------------------------------------------
\* "self._conn.sync_connection.detach()" raises: nothing after it runs, the
\* exception leaves close() through "async with", which releases the lock.
DetachRaised(t, w, e) ==
    /\ pc' = [pc EXCEPT ![t] = "idle"]
    /\ lock' = 0
    /\ UNCHANGED <<conn, hstate, pending>>
    /\ ret' = [ret EXCEPT ![t] =
            Exited(Running("close", w), "raised", e, e, e, conn', pending',
                   FALSE, TRUE)]

\* The part of close() that runs once the lock is held, up to the first
\* suspension: the connected check, detach() and the start of _conn.close().
CloseLocked(t, w) ==
    IF ~connected
    THEN /\ pc' = [pc EXCEPT ![t] = "idle"]
         /\ lock' = 0
         /\ UNCHANGED <<conn, hstate, pending>>
         /\ ret' = [ret EXCEPT ![t] =
                Exited(Running("close", w), "returned", None, None, None,
                       conn', pending', FALSE, FALSE)]
    ELSE \/ /\ hstate' = [hstate EXCEPT ![conn] = "detached"]
            /\ pc' = [pc EXCEPT ![t] = "close_await"]
            /\ lock' = t
            /\ ret' = [ret EXCEPT ![t] = Running("close", w)]
            /\ UNCHANGED <<conn, pending>>
         \/ \E e \in CloseErrors : DetachRaised(t, w, e)

\* A task calls close(): "async with self._connect_lock".
CloseCall(t) ==
    /\ UNCHANGED <<queryVars, resultsVars, latencyVars>>
    /\ pc[t] = "idle"
    /\ everClose' = TRUE
    /\ IF LockFree
       THEN /\ CloseLocked(t, FALSE)
            /\ UNCHANGED waiters
       ELSE /\ pc' = [pc EXCEPT ![t] = "close_wait"]
            /\ waiters' = Append(waiters, t)
            /\ ret' = [ret EXCEPT ![t] = [NoCall EXCEPT !.op = "close"]]
            /\ UNCHANGED <<lock, conn, hstate, pending>>
    /\ UNCHANGED <<attempts, handles, everFail>>

\* The lock is released and the first waiter, a close() call, gets it.
CloseAcquire(t) ==
    /\ UNCHANGED <<queryVars, resultsVars, latencyVars>>
    /\ pc[t] = "close_wait"
    /\ lock = 0
    /\ waiters # <<>>
    /\ Head(waiters) = t
    /\ waiters' = Tail(waiters)
    /\ CloseLocked(t, TRUE)
    /\ UNCHANGED <<attempts, handles, everClose, everFail>>

\* A close() that forgets line 292, the reset of the counter.
CloseSucceeded_KeepsCounter(t) ==
    /\ hstate' = [hstate EXCEPT ![conn] = "closed"]
    /\ conn' = 0
    /\ lock' = 0
    /\ pc' = [pc EXCEPT ![t] = "idle"]
    /\ UNCHANGED pending
    /\ ret' = [ret EXCEPT ![t] =
            Exited(ret[t], "returned", None, None, None, conn', pending',
                   FALSE, TRUE)]

\* "await self._conn.close()" returns: lines 291-292 run and close() returns.
CloseSucceeded(t) ==
    /\ hstate' = [hstate EXCEPT ![conn] = "closed"]
    /\ conn' = 0
    /\ pending' = 0
    /\ lock' = 0
    /\ pc' = [pc EXCEPT ![t] = "idle"]
    /\ ret' = [ret EXCEPT ![t] =
            Exited(ret[t], "returned", None, None, None, conn', pending',
                   FALSE, TRUE)]

\* "await self._conn.close()" raises: lines 291-292 do not run.
CloseRaised(t, e) ==
    /\ lock' = 0
    /\ pc' = [pc EXCEPT ![t] = "idle"]
    /\ UNCHANGED <<conn, hstate, pending>>
    /\ ret' = [ret EXCEPT ![t] =
            Exited(ret[t], "raised", e, e, e, conn', pending', FALSE, TRUE)]

\* The underlying close ends, by returning or with an exception.
CloseDone(t) ==
    /\ UNCHANGED <<queryVars, resultsVars, latencyVars>>
    /\ pc[t] = "close_await"
    /\ \/ CloseSucceeded(t)
       \/ \E e \in CloseErrors : CloseRaised(t, e)
    /\ UNCHANGED <<waiters, attempts, handles, everClose, everFail>>

\* ---- the pending-query counter ------------------------------------------
\* A caller submits a statement on the connected manager.
QueryBegin ==
    /\ UNCHANGED <<queryVars, resultsVars, latencyVars>>
    /\ connected
    /\ pending < MaxPending
    /\ pending' = pending + 1
    /\ UNCHANGED <<pc, lock, waiters, conn, hstate, attempts, handles,
                   everClose, everFail, ret>>

\* A submitted statement ends.
QueryEnd ==
    /\ UNCHANGED <<queryVars, resultsVars, latencyVars>>
    /\ pending > 0
    /\ pending' = pending - 1
    /\ UNCHANGED <<pc, lock, waiters, conn, hstate, attempts, handles,
                   everClose, everFail, ret>>

NextDB ==
    \/ \E t \in Tasks : ConnectCall(t)
    \/ \E t \in Tasks : ConnectAcquire(t)
    \/ \E t \in Tasks : ConnectDone(t)
    \/ \E t \in Tasks : CloseCall(t)
    \/ \E t \in Tasks : CloseAcquire(t)
    \/ \E t \in Tasks : CloseDone(t)
    \/ QueryBegin
    \/ QueryEnd

\* ------------------------------------------------------------ DataBase claims
\* C1: concurrent connect() calls with no close() and a succeeding
\* underlying connect make exactly one underlying attempt, hold at most one
\* handle, and each returns with the manager connected; no step taken while
\* the manager is connected starts an underlying attempt.
C1_ConnectOnce ==
    /\ []((~everClose /\ ~everFail) =>
            /\ attempts <= 1
            /\ handles <= 1
            /\ \A t \in Tasks :
                (ret[t].op = "connect" /\ pc[t] = "idle") =>
                    /\ ret[t].outcome = "returned"
                    /\ ret[t].connected
                    /\ attempts = 1)
    /\ [][connected => attempts' = attempts]_dbVars

\* Two connect() calls have returned, the second one having started while
\* the first was suspended in the underlying connect.
C1_Witness ==
    /\ ~everClose /\ ~everFail
    /\ \A t \in Tasks : ret[t].op = "connect" /\ ret[t].outcome = "returned"
    /\ \E t \in Tasks : ret[t].waited /\ ~ret[t].attempted
    /\ \E t \in Tasks : ret[t].attempted

\* C2: when detach() or close() of the handle raises inside close(), the
\* manager is disconnected as the error propagates (connected false, counter
\* 0), and no detached or closed handle stays held once close() has exited.
C2_CloseReleasesOnError ==
    /\ \A t \in Tasks :
        (ret[t].op = "close" /\ ret[t].outcome = "raised") =>
            ~ret[t].connected /\ ret[t].pending = 0
    /\ (connected /\ hstate[conn] \in {"detached", "closed"}) =>
            \E t \in Tasks : pc[t] = "close_await"

\* C6: a failing underlying connect makes connect() raise ConnectError with
\* the underlying error's class name, leaves the manager disconnected and
\* the lock released; a connect() that finds the manager disconnected makes
\* an underlying attempt.
C6_ConnectFailure ==
    /\ \A t \in Tasks :
        (ret[t].op = "connect" /\ ret[t].outcome = "raised") =>
            /\ ret[t].error = "DataBaseConnectError"
            /\ ret[t].cause \in ConnectErrors
            /\ ret[t].message = ret[t].cause
            /\ ~ret[t].connected
            /\ ~ret[t].wasConnected
    /\ \A t \in Tasks : pc[t] = "idle" => lock # t
    /\ \A t \in Tasks :
        (ret[t].op = "connect" /\ pc[t] = "idle" /\ ~ret[t].wasConnected) =>
            ret[t].attempted

\* One connect() has failed with ConnectError and a later connect() on the
\* same manager has made a new attempt and returned connected.
C6_Witness ==
    \E t, u \in Tasks :
        /\ t # u
        /\ ret[t].op = "connect" /\ ret[t].outcome = "raised"
        /\ ret[u].op = "connect" /\ ret[u].outcome = "returned"
        /\ ret[u].attempted /\ ret[u].connected
        /\ attempts = 2 /\ lock = 0

\* C7: when close() returns the manager is disconnected and the counter is
\* 0; close() on a disconnected manager returns without touching a handle.
C7_CloseReturns ==
    \A t \in Tasks :
        /\ (ret[t].op = "close" /\ ret[t].outcome = "returned") =>
                ~ret[t].connected /\ ret[t].pending = 0
        /\ (ret[t].op = "close" /\ pc[t] = "idle" /\ ~ret[t].wasConnected) =>
                ret[t].outcome = "returned" /\ ~ret[t].touched

\* A close() that started connected with queries pending has returned, and
\* a close() on the then disconnected manager has returned too.
C7_Witness ==
    \E t, u \in Tasks :
        /\ t # u
        /\ ret[t].op = "close" /\ ret[t].outcome = "returned"
        /\ ret[t].wasConnected /\ ret[t].hadPending
        /\ ret[u].op = "close" /\ ret[u].outcome = "returned"
        /\ ~ret[u].wasConnected

\* ========================================================== Query (db.py:145)
\* ---- the inputs of the constructor ----------------------------------------
\* interval: None or a number of seconds
Intervals == {Nil} \cup {Some(i) : i \in 0..MaxInterval}

\* schedule: None or a string, a string being the sequence of its
\* whitespace-separated fields ("" has none); "x" is a field croniter rejects
CronFields == {"*", "*/5", "x"}
Schedules ==
    {Nil,
     Some(<<>>),
     Some(<<"*", "*", "*", "*", "*">>),
     Some(<<"*/5", "*", "*", "*", "*", "*">>),
     Some(<<"*", "*", "*">>),
     Some(<<"*", "x", "*", "*", "*">>)}

\* sql: a string, as the sequence of its pieces: plain text or ":name"
Text(s) == [kind |-> "text", name |-> s]
Bind(n) == [kind |-> "bind", name |-> n]
SqlPieces == {Text("SELECT 1"), Bind("a"), Bind("b")}
Sqls == UNION {[1..n -> SqlPieces] : n \in 1..MaxSqlLen}

\* parameters: None or a dict, of which only the keys matter
ParameterKeys == {"a", "b", "c"}
Parameters == {Nil} \cup {Some(ks) : ks \in SUBSET ParameterKeys}

\* ---- Python truth values ------------------------------------------------
\* bool(x) of an optional int: None and 0 are false
TruthyInt(o) == o # Nil /\ o[1] # 0
\* bool(x) of an optional str: None and "" are false
TruthyStr(o) == o # Nil /\ o[1] # <<>>

\* croniter.is_valid(expr): five or six fields, every one well-formed
CroniterIsValid(expr) ==
    /\ Len(expr) \in {5, 6}
    /\ \A i \in 1..Len(expr) : expr[i] \in CronFields \ {"x"}

\* set(text(sql).compile().params): the names of the bind parameters
CompiledParams(sql) ==
    {sql[i].name : i \in {j \in 1..Len(sql) : sql[j].kind = "bind"}}

\* "self.parameters = parameters or {}", line 165, then set(self.parameters)
ParametersOrEmpty(o) == IF o = Nil \/ o[1] = {} THEN {} ELSE o[1]

\* Query._check_schedule, lines 216-223: the exception it raises, or "ok"
CheckSchedule(q) ==
    IF TruthyInt(q.interval) /\ TruthyStr(q.schedule)
    THEN [error |-> "InvalidQuerySchedule",
          message |-> "both interval and schedule specified"]
    ELSE IF TruthyStr(q.schedule) /\ ~CroniterIsValid(q.schedule[1])
    THEN [error |-> "InvalidQuerySchedule",
          message |-> "invalid schedule format"]
    ELSE [error |-> "ok", message |-> ""]

\* A parameter check that accepts parameters missing from the SQL's names.
CheckQueryParameters_Subset(q) ==
    IF ~(ParametersOrEmpty(q.parameters) \subseteq CompiledParams(q.sql))
    THEN [error |-> "InvalidQueryParameters", message |-> ""]
    ELSE [error |-> "ok", message |-> ""]

\* Query._check_query_parameters, lines 225-230
CheckQueryParameters(q) ==
    IF ParametersOrEmpty(q.parameters) # CompiledParams(q.sql)
    THEN [error |-> "InvalidQueryParameters", message |-> ""]
    ELSE [error |-> "ok", message |-> ""]

\* Query.__init__, lines 160-170: the two checks in order; the first
\* exception leaves the constructor and no Query exists.
QueryInit(q) ==
    IF CheckSchedule(q).error # "ok" THEN CheckSchedule(q)
    ELSE IF CheckQueryParameters(q).error # "ok" THEN CheckQueryParameters(q)
    ELSE [error |-> "constructed", message |-> ""]

NotBuilt == [error |-> "none", message |-> ""]
\* the arguments of a query without placeholders, parameters or schedule
NoArguments ==
    [interval |-> Nil, schedule |-> Nil, sql |-> <<Text("SELECT 1")>>,
     parameters |-> Nil]

\* The caller constructs Query(...) from the arguments.
Construct ==
    /\ built = NotBuilt
    /\ built' = QueryInit(query)
    /\ UNCHANGED <<query, dbVars, resultsVars, latencyVars>>

NextQuery == Construct

\* ------------------------------------------------------------- Query claims
\* C8: a constructor call with both interval and schedule given (any value
\* but None for each) raises InvalidQuerySchedule, never
\* InvalidQueryParameters and never a constructed query.
C8_BothSetRaises ==
    (built # NotBuilt /\ query.interval # Nil /\ query.schedule # Nil) =>
        built.error = "InvalidQuerySchedule"

\* C9: for arguments that pass the schedule check, construction succeeds
\* iff the set of parameter keys (empty when omitted) equals the set of
\* placeholder names of the SQL, and otherwise raises InvalidQueryParameters.
C9_ParametersMatch ==
    (built # NotBuilt /\ CheckSchedule(query).error = "ok") =>
        LET keys == IF query.parameters = Nil THEN {}
                    ELSE query.parameters[1]
            P == {n \in ParameterKeys :
                    \E i \in 1..Len(query.sql) : query.sql[i] = Bind(n)}
        IN  /\ (keys = P) <=> (built.error = "constructed")
            /\ (keys # P) <=> (built.error = "InvalidQueryParameters")

\* A constructor call whose parameter keys are a strict subset of the
\* non-empty placeholder set has raised InvalidQueryParameters.
C9_Witness ==
    /\ built.error = "InvalidQueryParameters"
    /\ query.parameters = Some({"a"})
    /\ query.sql = <<Bind("a"), Bind("b")>>

\* ================================================== Query.results (db.py:183)
\* ---- the inputs -----------------------------------------------------------
MetricNames == {"m1", "m2"}
LabelNames == {"l1", "l2"}
ColumnNames == MetricNames \cup LabelNames
\* Python's order of these strings
SortedNames == <<"l1", "l2", "m1", "m2">>
Rank(n) == CHOOSE i \in 1..Len(SortedNames) : SortedNames[i] = n

\* the label lists of a metric
LabelLists == {<<>>, <<"l1">>, <<"l2">>, <<"l2", "l1">>}
\* QueryMetric, lines 106-110
QueryMetric == [name : MetricNames, labels : LabelLists]
\* the metric lists of a query: names are pairwise distinct
MetricLists ==
    {ms \in UNION {[1..n -> QueryMetric] : n \in 0..MaxMetrics} :
        \A i, j \in 1..Len(ms) : i # j => ms[i].name # ms[j].name}

KeyLists == UNION {[1..n -> ColumnNames] : n \in 0..MaxKeys}
\* r rows for n columns, every cell holding its own value
RowsOf(r, n) == [i \in 1..r |-> [c \in 1..n |-> 10 * i + c]]
Latencies == {Nil, Some(3)}

\* QueryResults, lines 113-118
QueryResults(keys, rows, latency) ==
    [keys |-> keys, rows |-> rows, latency |-> latency]

\* ---- helpers --------------------------------------------------------------
RECURSIVE InsertSorted(_, _)
InsertSorted(x, s) ==
    IF s = <<>> THEN <<x>>
    ELSE IF Rank(x) <= Rank(Head(s)) THEN <<x>> \o s
    ELSE <<Head(s)>> \o InsertSorted(x, Tail(s))

\* sorted(a list of strings)
RECURSIVE sorted(_)
sorted(s) == IF s = <<>> THEN <<>> ELSE InsertSorted(Head(s), sorted(Tail(s)))

\* sorted(a set of strings)
RECURSIVE sortedSet(_)
sortedSet(S) ==
    IF S = {} THEN <<>>
    ELSE LET x == CHOOSE y \in S : \A z \in S : Rank(y) <= Rank(z)
         IN  <<x>> \o sortedSet(S \ {x})

\* Query.labels, lines 178-181: frozenset(chain(*metric.labels))
labels(ms) == UNION {{ms[i].labels[j] : j \in 1..Len(ms[i].labels)} :
                        i \in 1..Len(ms)}

\* dict(zip(keys, row)): a later pair replaces an earlier one of the same key
RECURSIVE dictZip(_, _)
dictZip(keys, row) ==
    IF keys = <<>> \/ row = <<>> THEN <<>>
    ELSE LET rest == dictZip(Tail(keys), Tail(row))
         IN  IF Head(keys) \in DOMAIN rest THEN rest
             ELSE (Head(keys) :> Head(row)) @@ rest

\* MetricResult, lines 130-135, of one metric for one row (lines 206-210)
MetricResult(metric, values) ==
    [metric |-> metric.name,
     value |-> values[metric.name],
     labels |-> [l \in {metric.labels[j] : j \in 1..Len(metric.labels)}
                    |-> values[l]]]

\* lines 205-212: the results of one row, in the order of self.metrics
RowResults(ms, values) == [m \in 1..Len(ms) |-> MetricResult(ms[m], values)]

\* lines 202-212: the results of all rows
RECURSIVE AllResults(_, _, _)
AllResults(ms, keys, rows) ==
    IF rows = <<>> THEN <<>>
    ELSE RowResults(ms, dictZip(keys, Head(rows)))
            \o AllResults(ms, keys, Tail(rows))

\* MetricResults, lines 138-142
MetricResults(rs, latency) ==
    [kind |-> "MetricResults", results |-> rs, latency |-> latency]

\* raise InvalidResultCount(expected, got), lines 54-60
InvalidResultCount(expected, got) ==
    [kind |-> "InvalidResultCount", expected |-> expected, got |-> got]

\* raise InvalidResultColumnNames(expected, got), lines 63-74
InvalidResultColumnNames(expected, got) ==
    [kind |-> "InvalidResultColumnNames", expected |-> expected, got |-> got]

\* A results() that reads every value by the position of its sorted name.
results_SortedPositions(ms, qr) ==
    IF qr.rows = <<>> THEN MetricResults(<<>>, Nil)
    ELSE LET result_keys == sorted(qr.keys)
             expected_keys ==
                sortedSet({ms[i].name : i \in 1..Len(ms)} \cup labels(ms))
         IN  IF Len(expected_keys) # Len(result_keys)
             THEN InvalidResultCount(Len(expected_keys), Len(result_keys))
             ELSE IF result_keys # expected_keys
             THEN InvalidResultColumnNames(result_keys, expected_keys)
             ELSE MetricResults(AllResults(ms, result_keys, qr.rows),
                                qr.latency)

\* Query.results, lines 183-214
results(ms, qr) ==
    IF qr.rows = <<>> THEN MetricResults(<<>>, Nil)
    ELSE LET result_keys == sorted(qr.keys)
             expected_keys ==
                sortedSet({ms[i].name : i \in 1..Len(ms)} \cup labels(ms))
         IN  IF Len(expected_keys) # Len(result_keys)
             THEN InvalidResultCount(Len(expected_keys), Len(result_keys))
             ELSE IF result_keys # expected_keys
             THEN InvalidResultColumnNames(result_keys, expected_keys)
             ELSE MetricResults(AllResults(ms, qr.keys, qr.rows), qr.latency)

NotCalled == [kind |-> "none"]

\* The caller passes the query's result set to results().
CallResults ==
    /\ results_out = NotCalled
    /\ results_out' = results(metrics, results_in)
    /\ UNCHANGED <<metrics, results_in, dbVars, queryVars, latencyVars>>

NextResults == CallResults

\* ----------------------------------------------------- Query.results claims
\* the column of a name in the result set's keys
Col(keys, name) == CHOOSE i \in 1..Len(keys) : keys[i] = name
ColumnOrders(n) ==
    {f \in [1..n -> 1..n] : \A i, j \in 1..n : i # j => f[i] # f[j]}
\* the result set with its columns reordered by f, keys and rows alike
Permuted(qr, f) ==
    QueryResults([i \in 1..Len(qr.keys) |-> qr.keys[f[i]]],
                 [r \in 1..Len(qr.rows) |->
                    [i \in 1..Len(qr.keys) |-> qr.rows[r][f[i]]]],
                 qr.latency)
\* sorted(union of the metric names and all label names)
ExpectedKeys ==
    sortedSet({metrics[i].name : i \in 1..Len(metrics)} \cup
              UNION {{metrics[i].labels[j] : j \in 1..Len(metrics[i].labels)} :
                        i \in 1..Len(metrics)})

\* C3: results() on a result set without rows returns an empty metric list,
\* whatever the keys and the metrics, with the latency of the result set.
C3_EmptyRows ==
    (results_out.kind # "none" /\ results_in.rows = <<>>) =>
        /\ results_out.kind = "MetricResults"
        /\ results_out.results = <<>>
        /\ results_out.latency = results_in.latency

\* C4: on a result set with rows, a different number of expected and result
\* keys gives InvalidResultCount(expected=len(expectedKeys),
\* got=len(resultKeys)); the same number but different names gives
\* InvalidResultColumnNames(expected=expectedKeys, got=resultKeys);
\* otherwise results() does not fail.
C4_SchemaErrors ==
    (results_out.kind # "none" /\ results_in.rows # <<>>) =>
        LET resultKeys == sorted(results_in.keys)
        IN  IF Len(ExpectedKeys) # Len(resultKeys)
            THEN results_out =
                    InvalidResultCount(Len(ExpectedKeys), Len(resultKeys))
            ELSE IF ExpectedKeys # resultKeys
            THEN results_out =
                    InvalidResultColumnNames(ExpectedKeys, resultKeys)
            ELSE results_out.kind = "MetricResults"

\* C5: a successful results() on R rows with M metrics returns R*M entries,
\* row by row and in metric order within a row; an entry's value is the
\* row's cell in the metric's column, its labels are exactly the metric's
\* label names, each with the row's cell in the label's column; the output
\* is the same for every reordering of the columns.
C5_RowsTimesMetrics ==
    (results_out.kind = "MetricResults" /\ results_in.rows # <<>>) =>
        LET R == Len(results_in.rows)
            M == Len(metrics)
            keys == results_in.keys
        IN  /\ Len(results_out.results) = R * M
            /\ \A r \in 1..R, m \in 1..M :
                LET e == results_out.results[(r - 1) * M + m]
                    names == {metrics[m].labels[j] :
                                j \in 1..Len(metrics[m].labels)}
                IN  /\ e.metric = metrics[m].name
                    /\ e.value = results_in.rows[r][Col(keys, e.metric)]
                    /\ DOMAIN e.labels = names
                    /\ \A l \in names :
                        e.labels[l] = results_in.rows[r][Col(keys, l)]
            /\ \A f \in ColumnOrders(Len(keys)) :
                results(metrics, Permuted(results_in, f)) = results_out

\* results() has succeeded on two rows of a query with two metrics, one of
\* them with a label, the columns not being in sorted order.
C5_Witness ==
    /\ results_out.kind = "MetricResults"
    /\ Len(results_in.rows) = 2
    /\ Len(metrics) = 2
    /\ \E m \in 1..Len(metrics) : metrics[m].labels # <<>>
    /\ results_in.keys # sorted(results_in.keys)
    /\ Len(results_out.results) = 4

\* ===================================== query latency tracking (db.py:301)
\* conn.info before any statement: neither key is set
EmptyInfo == [query_start_time |-> Nil, query_latency |-> Nil]
NoStatement == [phase |-> "none", before |-> Nil, after |-> Nil]

\* Time passes.
Tick ==
    /\ clock < MaxClock
    /\ clock' = clock + 1
    /\ UNCHANGED <<info, stmt, attached, dbVars, queryVars, resultsVars>>

\* before_cursor_execute, lines 306-308: a statement is submitted.
before_cursor_execute ==
    /\ stmt.phase \in {"none", "fetched"}
    /\ info' = [info EXCEPT !.query_start_time = Some(clock)]
    /\ stmt' = [phase |-> "executing", before |-> Some(clock), after |-> Nil]
    /\ UNCHANGED <<clock, attached, dbVars, queryVars, resultsVars>>

\* after_cursor_execute, lines 310-314: the statement's cursor has run.
after_cursor_execute ==
    /\ stmt.phase = "executing"
    /\ stmt.after = Nil
    /\ info' = [query_start_time |-> Nil,
                query_latency |-> Some(clock - info.query_start_time[1])]
    /\ stmt' = [stmt EXCEPT !.after = Some(clock)]
    /\ UNCHANGED <<clock, attached, dbVars, queryVars, resultsVars>>

\* QueryResults.from_results, lines 120-127: the statement's result set is
\* built, with conn_info.get("query_latency", None) as its latency.
from_results ==
    /\ stmt.phase = "executing"
    /\ attached' = info.query_latency
    /\ stmt' = [stmt EXCEPT !.phase = "fetched"]
    /\ UNCHANGED <<clock, info, dbVars, queryVars, resultsVars>>

NextLatency ==
    \/ Tick
    \/ before_cursor_execute
    \/ after_cursor_execute
    \/ from_results

\* ---------------------------------------------------------- latency claims
\* C10: the latency attached to a statement's result set is the time
\* between that statement's own before-hook and after-hook, and it is absent
\* when no after-hook has fired for that statement.
C10_LatencyOfSameStatement ==
    stmt.phase = "fetched" =>
        IF stmt.after # Nil
        THEN attached = Some(stmt.after[1] - stmt.before[1])
        ELSE attached = Nil

\* ========================================================== specifications
vars == <<dbVars, queryVars, resultsVars, latencyVars>>

\* The connection manager, used by concurrent caller tasks. A new DataBase
\* holds no connection (lines 236-238, 247); no query, result set or
\* statement is involved.
Init ==
    /\ pc = [t \in Tasks |-> "idle"]
    /\ lock = 0
    /\ waiters = <<>>
    /\ conn = 0
    /\ hstate = [h \in HandleIds |-> "new"]
    /\ pending = 0
    /\ attempts = 0
    /\ handles = 0
    /\ everClose = FALSE
    /\ everFail = FALSE
    /\ ret = [t \in Tasks |-> NoCall]
    /\ query = NoArguments
    /\ built = NotBuilt
    /\ metrics = <<>>
    /\ results_in = QueryResults(<<>>, <<>>, Nil)
    /\ results_out = NotCalled
    /\ clock = 0
    /\ info = EmptyInfo
    /\ stmt = NoStatement
    /\ attached = Nil

Spec == Init /\ [][NextDB]_vars

\* The construction of a Query from any arguments.
InitQuery ==
    /\ query \in [interval : Intervals, schedule : Schedules, sql : Sqls,
                  parameters : Parameters]
    /\ built = NotBuilt
    /\ pc = [t \in Tasks |-> "idle"]
    /\ lock = 0
    /\ waiters = <<>>
    /\ conn = 0
    /\ hstate = [h \in HandleIds |-> "new"]
    /\ pending = 0
    /\ attempts = 0
    /\ handles = 0
    /\ everClose = FALSE
    /\ everFail = FALSE
    /\ ret = [t \in Tasks |-> NoCall]
    /\ metrics = <<>>
    /\ results_in = QueryResults(<<>>, <<>>, Nil)
    /\ results_out = NotCalled
    /\ clock = 0
    /\ info = EmptyInfo
    /\ stmt = NoStatement
    /\ attached = Nil

SpecQuery == InitQuery /\ [][NextQuery]_vars

\* results() of any query on any result set.
InitResults ==
    /\ metrics \in MetricLists
    /\ results_in \in {QueryResults(keys, RowsOf(r, Len(keys)), latency) :
                        keys \in KeyLists, r \in 0..MaxRows,
                        latency \in Latencies}
    /\ results_out = NotCalled
    /\ pc = [t \in Tasks |-> "idle"]
    /\ lock = 0
    /\ waiters = <<>>
    /\ conn = 0
    /\ hstate = [h \in HandleIds |-> "new"]
    /\ pending = 0
    /\ attempts = 0
    /\ handles = 0
    /\ everClose = FALSE
    /\ everFail = FALSE
    /\ ret = [t \in Tasks |-> NoCall]
    /\ query = NoArguments
    /\ built = NotBuilt
    /\ clock = 0
    /\ info = EmptyInfo
    /\ stmt = NoStatement
    /\ attached = Nil

SpecResults == InitResults /\ [][NextResults]_vars

\* Statements executed one after the other on one new connection.
InitLatency ==
    /\ clock = 0
    /\ info = EmptyInfo
    /\ stmt = NoStatement
    /\ attached = Nil
    /\ pc = [t \in Tasks |-> "idle"]
    /\ lock = 0
    /\ waiters = <<>>
    /\ conn = 0
    /\ hstate = [h \in HandleIds |-> "new"]
    /\ pending = 0
    /\ attempts = 0
    /\ handles = 0
    /\ everClose = FALSE
    /\ everFail = FALSE
    /\ ret = [t \in Tasks |-> NoCall]
    /\ query = NoArguments
    /\ built = NotBuilt
    /\ metrics = <<>>
    /\ results_in = QueryResults(<<>>, <<>>, Nil)
    /\ results_out = NotCalled

SpecLatency == InitLatency /\ [][NextLatency]_vars

====
